---------------------------- MODULE Spec2Model ----------------------------
(* A model of aerosandbox.geometry.airplane.Airplane: construction with    *)
(* reference-value resolution, is_entirely_symmetric, aerodynamic_center   *)
(* and write_avl.  Wings, cross-sections, airfoils and fuselages are the   *)
(* objects the airplane is given; they appear here through the attributes  *)
(* and query results that Airplane reads.                                  *)
EXTENDS Integers, Sequences, FiniteSets, TLC

(***************************************************************************)
(* Bounds of the model.                                                    *)
(***************************************************************************)
\* longest wing list handed to the constructor
MaxWings == 2
\* most cross-sections on a wing of the serializer inputs
MaxXsecs == 2
\* most cross-sections on the examined wing of the symmetry inputs
MaxSymXsecs == 1
\* longest fuselage list handed to the constructor
MaxFuselages == 2
\* the airplanes of a session that builds several
MaxAirplanes == 2
\* the items appended to one list of such an airplane
MaxItems == 1

(***************************************************************************)
(* Python values.  A number is an int or a float; a float is held as a     *)
(* count of tenths (25 is 2.5).  None has the same record shape so that    *)
(* values of either kind can be compared.                                  *)
(***************************************************************************)
None == [k |-> "None", v |-> 0]
PyInt(n) == [k |-> "int", v |-> n]
PyFloat(t) == [k |-> "float", v |-> t]
PyList(l) == [k |-> "list", v |-> l]
PyStr(line) == [k |-> "str", v |-> line]
IsNone(x) == x.k = "None"
\* the numeric value of a number, in tenths
Tenths(x) == IF x.k = "int" THEN 10 * x.v ELSE x.v

(***************************************************************************)
(* Text.  A character token is a one-line fragment without white space     *)
(* (a word, a digit, a sign), or the space SP.  A Python str is the        *)
(* sequence of its lines, i.e. the str split at "\n": the str "a\nb" is    *)
(* << <<"a">>, <<"b">> >> and "" is << <<>> >>.  A str ending in "\n" has  *)
(* an empty last line.                                                     *)
(***************************************************************************)
SP == " "
Spaces(n) == [i \in 1..n |-> SP]
Str1(line) == <<line>>
EmptyStr == << <<>> >>

\* s + t
StrCat(s, t) ==
    SubSeq(s, 1, Len(s) - 1) \o <<s[Len(s)] \o t[1]>> \o SubSeq(t, 2, Len(t))

\* line.strip()
Strip(line) ==
    LET keep == {i \in 1..Len(line) : line[i] # SP}
    IN  IF keep = {} THEN <<>>
        ELSE LET lo == CHOOSE i \in keep : \A j \in keep : i <= j
                 hi == CHOOSE i \in keep : \A j \in keep : j <= i
             IN  SubSeq(line, lo, hi)

DigitChar == <<"0", "1", "2", "3", "4", "5", "6", "7", "8", "9">>

RECURSIVE Digits(_)
Digits(n) ==
    IF n < 10 THEN <<DigitChar[n + 1]>>
    ELSE Digits(n \div 10) \o <<DigitChar[(n % 10) + 1]>>

Abs(n) == IF n < 0 THEN -n ELSE n
Sign(n) == IF n < 0 THEN <<"-">> ELSE <<>>

\* str(n) of a Python int
FormatInt(n) == Sign(n) \o Digits(Abs(n))

\* the k digits of the fraction f / 10^k
RECURSIVE FracAll(_, _)
FracAll(f, k) ==
    IF k = 1 THEN <<DigitChar[f + 1]>>
    ELSE FracAll(f \div 10, k - 1) \o <<DigitChar[(f % 10) + 1]>>

\* the same, without trailing zeros, at least one digit kept
RECURSIVE FracTrim(_, _)
FracTrim(f, k) ==
    IF k = 1 THEN <<DigitChar[f + 1]>>
    ELSE IF f % 10 = 0 THEN FracTrim(f \div 10, k - 1)
    ELSE FracAll(f, k)

Pow10(k) == IF k = 1 THEN 10 ELSE IF k = 2 THEN 100 ELSE IF k = 3 THEN 1000 ELSE 10000

\* str(x) of the Python float v / 10^k: shortest decimal text
FormatFixed(v, k) ==
    Sign(v) \o Digits(Abs(v) \div Pow10(k)) \o <<".">> \o FracTrim(Abs(v) % Pow10(k), k)

\* f"{x}" of a value: a number or None
Format(x) ==
    IF x.k = "None" THEN <<"None">>
    ELSE IF x.k = "int" THEN FormatInt(x.v)
    ELSE FormatFixed(x.v, 1)


(***************************************************************************)
(* The objects an airplane is built from.  Each is the record of the       *)
(* attributes Airplane reads and of the results of the queries it makes.   *)
(***************************************************************************)
Vec(x, y, z) == <<PyFloat(x), PyFloat(y), PyFloat(z)>>

\* chord fractions a caller may pass, in hundredths
ChordFractions == {10, 25}

\* An airfoil: CL_function(0, 1e6, 0, 0), Cm_function(0, 1e6, 0, 0),
\* max_thickness() in hundredths, and the text of
\* repanel(50).write_dat(filepath=None, include_name=False).
Naca0012 ==
    [CL0 |-> PyFloat(0), Cm0 |-> PyFloat(0), max_thickness |-> 12,
     dat |-> << <<"1.0", SP, "0.0">>, <<"0.0", SP, "0.0">> >>]
CamberedCL == [Naca0012 EXCEPT !.CL0 = PyFloat(5)]
CamberedCm == [Naca0012 EXCEPT !.Cm0 = PyFloat(-1)]
Sd7037 ==
    [CL0 |-> PyFloat(4), Cm0 |-> PyFloat(-1), max_thickness |-> 10,
     dat |-> << <<"1.0", SP, "0.0">>, <<"0.5", SP, "0.1">>, <<"0.0", SP, "0.0">> >>]

\* A wing cross-section (WingXSec).
XSecBase ==
    [xyz_le |-> Vec(0, 0, 0), chord |-> PyFloat(10), twist |-> PyFloat(0),
     twist_axis |-> Vec(0, 10, 0),
     control_surface_is_symmetric |-> FALSE,
     control_surface_deflection |-> PyFloat(0),
     airfoil |-> Naca0012]

\* the cross-sections of the symmetry inputs: the plain one, and one for
\* each way a cross-section can differ from it
XSecSym ==
    { XSecBase,
      [XSecBase EXCEPT !.control_surface_deflection = PyFloat(50)],
      [XSecBase EXCEPT !.control_surface_deflection = PyFloat(50),
                       !.control_surface_is_symmetric = TRUE],
      [XSecBase EXCEPT !.xyz_le = Vec(0, 10, 0)],
      [XSecBase EXCEPT !.twist = PyFloat(20)],
      [XSecBase EXCEPT !.twist = PyFloat(20), !.twist_axis = Vec(10, 0, 0)],
      [XSecBase EXCEPT !.twist = PyFloat(20), !.twist_axis = Vec(0, 0, 10)],
      [XSecBase EXCEPT !.airfoil = CamberedCL],
      [XSecBase EXCEPT !.airfoil = CamberedCm] }

\* the i-th station of a tapered, twisted wing, root first
Station(i) ==
    [XSecBase EXCEPT !.xyz_le = Vec(2 * (i - 1), 50 * (i - 1), i - 1),
                     !.chord = PyFloat(12 - 2 * i),
                     !.twist = PyFloat(20),
                     !.airfoil = Sd7037]
Stations(n) == [i \in 1..n |-> Station(i)]

\* The planform of a wing as its queries report it: area(), area(type=
\* "projected"), mean_aerodynamic_chord(), span() and, for each chord
\* fraction cf, aerodynamic_center(cf).
Planform(area, proj, mac, span, xle, z) ==
    [area |-> PyFloat(area), area_projected |-> PyFloat(proj),
     mean_aerodynamic_chord |-> PyFloat(mac), span |-> PyFloat(span),
     aerodynamic_center |->
        [cf \in ChordFractions |-> Vec(xle + (cf * mac) \div 100, 0, z)]]

Planforms ==
    { Planform(20, 10, 20, 20, -5, 0),
      Planform(40, 30, 40, 30, 30, 0),
      Planform(12, 10, 20, 10, 5, 0),
      Planform(11, 10, 20, 10, 25, 0),
      Planform(0, 0, 20, 0, 45, 10) }

\* A wing (Wing).  is_entirely_symmetric is the result of the wing's own
\* is_entirely_symmetric().
MkWing(name, symmetric, selfsym, xyz_le, xsecs, pf) ==
    [name |-> name, symmetric |-> symmetric, is_entirely_symmetric |-> selfsym,
     xyz_le |-> xyz_le, xsecs |-> xsecs, planform |-> pf]

MainPlanform == Planform(20, 10, 20, 20, -5, 0)

\* A fuselage (Fuselage).
Fuselages ==
    { [name |-> <<"Fuselage">>, xyz_le |-> Vec(0, 0, 0)],
      [name |-> <<"Pod">>, xyz_le |-> Vec(10, -5, 0)] }

\* the sequences over S of length at most n
SeqsUpTo(S, n) == UNION {[1..k -> S] : k \in 0..n}

(***************************************************************************)
(* The constructor calls of the model.                                     *)
(***************************************************************************)
DefaultName == Str1(<<"Untitled">>)
\* np.array([0, 0, 0])
DefaultXyzRef == <<PyInt(0), PyInt(0), PyInt(0)>>

MkArgs(name, xyz_ref, wings, fuselages, s_ref, c_ref, b_ref) ==
    [name |-> name, xyz_ref |-> xyz_ref, wings |-> wings, fuselages |-> fuselages,
     s_ref |-> s_ref, c_ref |-> c_ref, b_ref |-> b_ref]

\* wings of every planform, in every order, with every choice of explicit
\* reference values
PlanformWings ==
    {MkWing(<<"Wing">>, TRUE, TRUE, Vec(0, 0, 0), <<>>, pf) : pf \in Planforms}
RefArgs ==
    {MkArgs(DefaultName, DefaultXyzRef, w, None, s, c, b) :
        w \in {PyList(l) : l \in SeqsUpTo(PlanformWings, MaxWings)} \cup {None},
        s \in {None, PyInt(9)}, c \in {None, PyFloat(9)}, b \in {None, PyInt(10)}}

\* one wing of any flags and cross-sections among wings that pass every check
ExaminedWings ==
    {MkWing(<<"Wing">>, sym, selfsym, Vec(0, 0, 0), xs, MainPlanform) :
        sym \in BOOLEAN, selfsym \in BOOLEAN, xs \in SeqsUpTo(XSecSym, MaxSymXsecs)}
PassingWings ==
    {MkWing(<<"Wing">>, sym, TRUE, Vec(0, 0, 0), <<XSecBase>>, MainPlanform) :
        sym \in BOOLEAN}
SymWingLists ==
    {pre \o <<w>> \o post :
        w \in ExaminedWings,
        pre \in SeqsUpTo(PassingWings, MaxWings - 1),
        post \in SeqsUpTo(PassingWings, MaxWings - 1)}
SymArgs ==
    {MkArgs(DefaultName, DefaultXyzRef, PyList(w), None, None, None, None) :
        w \in {l \in SymWingLists : Len(l) <= MaxWings}}

\* tapered wings of up to MaxXsecs stations, and fuselages
TaperedWings ==
    {MkWing(IF x = 0 THEN <<"Wing">> ELSE <<"H-stab">>, sym, TRUE, Vec(x, 0, 0),
            Stations(n), MainPlanform) :
        sym \in BOOLEAN, x \in {0, 40}, n \in 0..MaxXsecs}
BodyArgs ==
    {MkArgs(DefaultName, DefaultXyzRef, PyList(w), None, None, None, None) :
        w \in SeqsUpTo(TaperedWings, MaxWings)}
    \cup
    {MkArgs(DefaultName, DefaultXyzRef, PyList(w), PyList(f), None, None, None) :
        w \in SeqsUpTo({t \in TaperedWings : Len(t.xsecs) = MaxXsecs}, MaxWings),
        f \in SeqsUpTo(Fuselages, MaxFuselages)}

\* names with inner and outer white space and with line breaks
Names ==
    { Str1(<<"Vanilla">>), Str1(<<>>), Str1(<<"My", SP, "plane">>),
      Str1(<<SP, "Vanilla">>), Str1(<<"Vanilla", SP>>),
      <<<<"Vanilla">>, <<"II">>>>, <<<<"Vanilla">>, <<>>>> }
XyzRefs == {DefaultXyzRef, <<PyFloat(5), PyInt(0), PyInt(0)>>, Vec(-12, 0, 105)}
HeaderArgs ==
    {MkArgs(n, x, PyList(w), None, r[1], r[2], r[3]) :
        n \in Names, x \in XyzRefs,
        w \in SeqsUpTo({MkWing(<<"Wing">>, TRUE, TRUE, Vec(0, 0, 0), <<>>, MainPlanform)}, 1),
        r \in {<<None, None, None>>, <<PyInt(9), PyFloat(9), PyInt(10)>>,
               <<PyFloat(-25), None, PyFloat(120)>>}}

ArgSpace == RefArgs \cup SymArgs \cup BodyArgs \cup HeaderArgs

(***************************************************************************)
(* State.                                                                  *)
(***************************************************************************)
VARIABLES
    args,       \* the arguments of the constructor call
    self,       \* the Airplane object, once constructed
    ret,        \* how the call that just ended did so: its return value or
                \* its exception; Idle once the caller has taken it
    written,    \* the files that call wrote, in order: path and content
    arrays,     \* the np.ndarray objects alive, by identity: their entries
    lists,      \* the list objects alive, by identity: their items
    fleet,      \* the airplanes of a session that builds several: for each,
                \* the identities of its xyz_ref, wings and fuselages
    touched     \* the airplane through which an object was last changed in
                \* place, 0 when the last step was none

vars == <<args, self, ret, written, arrays, lists, fleet, touched>>
\* the one airplane under study, and the objects of the session of several
airplane_vars == <<args, self, ret, written>>
session_vars == <<arrays, lists, fleet, touched>>

Unconstructed == [k |-> "unconstructed"]
Idle == [op |-> "none", arg |-> None, kind |-> "idle", value |-> None]
\* a call of op with argument arg that returned value, or raised exc
Return(op, arg, value) == [op |-> op, arg |-> arg, kind |-> "return", value |-> value]
Raise(op, arg, exc) == [op |-> op, arg |-> arg, kind |-> "raise", value |-> exc]

(***************************************************************************)
(* Airplane.__init__                                                       *)
(***************************************************************************)
\* the body of the try statement: self.wings[0] raises IndexError on an
\* empty list, and each missing value is set from the first wing
AssignReferenceValues(wings, s_ref, c_ref, b_ref) ==
    IF Len(wings) = 0
    THEN [exc |-> "IndexError", s_ref |-> s_ref, c_ref |-> c_ref, b_ref |-> b_ref]
    ELSE LET main_wing == wings[1]
         IN  [exc |-> "none",
              s_ref |-> IF IsNone(s_ref) THEN main_wing.planform.area ELSE s_ref,
              c_ref |-> IF IsNone(c_ref)
                        THEN main_wing.planform.mean_aerodynamic_chord ELSE c_ref,
              b_ref |-> IF IsNone(b_ref) THEN main_wing.planform.span ELSE b_ref]

\* the try body without its handler: the IndexError leaves the constructor
TryAssignReferenceValues_NoHandler(wings, s_ref, c_ref, b_ref) ==
    AssignReferenceValues(wings, s_ref, c_ref, b_ref)

\* try: ... except IndexError: pass
TryAssignReferenceValues(wings, s_ref, c_ref, b_ref) ==
    LET r == AssignReferenceValues(wings, s_ref, c_ref, b_ref)
    IN  IF r.exc = "IndexError" THEN [r EXCEPT !.exc = "none"] ELSE r

\* the constructor: the exception it ends with ("none" when it returns) and
\* the object it leaves
Airplane__init__(a) ==
    LET wings == IF IsNone(a.wings) THEN <<>> ELSE a.wings.v
        fuselages == IF IsNone(a.fuselages) THEN <<>> ELSE a.fuselages.v
        r == TryAssignReferenceValues(wings, a.s_ref, a.c_ref, a.b_ref)
    IN  [exc |-> r.exc,
         obj |-> [k |-> "Airplane", name |-> a.name, xyz_ref |-> a.xyz_ref,
                  wings |-> wings, fuselages |-> fuselages,
                  s_ref |-> r.s_ref, c_ref |-> r.c_ref, b_ref |-> r.b_ref]]

Construct ==
    /\ ret.kind = "idle"
    /\ self.k = "unconstructed"
    /\ LET r == Airplane__init__(args)
       IN  IF r.exc = "none"
           THEN self' = r.obj /\ ret' = Return("__init__", None, None)
           ELSE self' = self /\ ret' = Raise("__init__", None, r.exc)
    /\ UNCHANGED <<args, written, session_vars>>

(***************************************************************************)
(* Airplane.is_entirely_symmetric                                          *)
(***************************************************************************)
IsZero(x) == Tenths(x) = 0

\* the airfoil checks made on every wing, outside "if not wing.symmetric"
XsecReturnsFalse_AirfoilAlways(wing, xsec) ==
    IF ~(xsec.control_surface_is_symmetric \/ IsZero(xsec.control_surface_deflection))
    THEN TRUE
    ELSE IF ~wing.symmetric /\ ~IsZero(xsec.xyz_le[2]) THEN TRUE
    ELSE IF ~wing.symmetric /\ ~IsZero(xsec.twist)
            /\ ~(IsZero(xsec.twist_axis[1]) /\ IsZero(xsec.twist_axis[3]))
    THEN TRUE
    ELSE IF ~IsZero(xsec.airfoil.CL0) THEN TRUE
    ELSE IF ~IsZero(xsec.airfoil.Cm0) THEN TRUE
    ELSE FALSE

\* the deflection check with "and" for "or"
XsecReturnsFalse_DeflectionAnd(wing, xsec) ==
    IF ~(xsec.control_surface_is_symmetric /\ IsZero(xsec.control_surface_deflection))
    THEN TRUE
    ELSE IF ~wing.symmetric
    THEN IF ~IsZero(xsec.xyz_le[2]) THEN TRUE
         ELSE IF ~IsZero(xsec.twist)
                 /\ ~(IsZero(xsec.twist_axis[1]) /\ IsZero(xsec.twist_axis[3]))
         THEN TRUE
         ELSE IF ~IsZero(xsec.airfoil.CL0) THEN TRUE
         ELSE IF ~IsZero(xsec.airfoil.Cm0) THEN TRUE
         ELSE FALSE
    ELSE FALSE

\* the checks of one cross-section: TRUE when one of them returns False
XsecReturnsFalse(wing, xsec) ==
    IF ~(xsec.control_surface_is_symmetric \/ IsZero(xsec.control_surface_deflection))
    THEN TRUE
    ELSE IF ~wing.symmetric
    THEN IF ~IsZero(xsec.xyz_le[2]) THEN TRUE
         ELSE IF ~IsZero(xsec.twist)
                 /\ ~(IsZero(xsec.twist_axis[1]) /\ IsZero(xsec.twist_axis[3]))
         THEN TRUE
         ELSE IF ~IsZero(xsec.airfoil.CL0) THEN TRUE
         ELSE IF ~IsZero(xsec.airfoil.Cm0) THEN TRUE
         ELSE FALSE
    ELSE FALSE

\* the pass without the wing's own check
WingReturnsFalse_OwnCheckSkipped(wing) ==
    \E i \in 1..Len(wing.xsecs) : XsecReturnsFalse(wing, wing.xsecs[i])

\* one pass of the loop over the wings: TRUE when it returns False
WingReturnsFalse(wing) ==
    IF ~wing.is_entirely_symmetric THEN TRUE
    ELSE \E i \in 1..Len(wing.xsecs) : XsecReturnsFalse(wing, wing.xsecs[i])

is_entirely_symmetric(ap) ==
    ~(\E w \in 1..Len(ap.wings) : WingReturnsFalse(ap.wings[w]))

IsEntirelySymmetric ==
    /\ ret.kind = "idle"
    /\ self.k = "Airplane"
    /\ ret' = Return("is_entirely_symmetric", None, is_entirely_symmetric(self))
    /\ UNCHANGED <<args, self, written, session_vars>>

(***************************************************************************)
(* Airplane.aerodynamic_center                                             *)
(***************************************************************************)
\* chord_fraction: float = 0.25, in hundredths
DefaultChordFraction == 25

RECURSIVE GCD(_, _)
GCD(a, b) == IF b = 0 THEN a ELSE GCD(b, a % b)

\* n / d of floats, n in hundredths and d in tenths: the quotient in tenths,
\* exact, as a fraction in lowest terms; numpy's nan and inf when d is 0
Quotient(n, d) ==
    IF d = 0
    THEN [k |-> IF n = 0 THEN "nan" ELSE IF n > 0 THEN "inf" ELSE "-inf",
          num |-> 0, den |-> 0]
    ELSE LET g == GCD(Abs(n), Abs(d))
             sg == IF d < 0 THEN -1 ELSE 1
         IN  [k |-> "float", num |-> sg * (n \div g), den |-> sg * (d \div g)]

\* wing.area(): the default area in place of the projected one
WingArea_Default(wing) == wing.planform.area

\* wing.area(type="projected")
WingArea(wing) == wing.planform.area_projected

\* wing.aerodynamic_center(): the wing's own default chord fraction
WingAC(wing, chord_fraction) == wing.planform.aerodynamic_center[DefaultChordFraction]

\* sum(xs) of numbers, from 0
RECURSIVE PySum(_)
PySum(xs) == IF Len(xs) = 0 THEN 0 ELSE xs[1] + PySum(Tail(xs))

\* sums that start from a numpy zero: never a Python int
SumIsPythonInt_Numpy(xs) == FALSE

\* sum(xs) of an empty list is the Python int 0; of arrays or floats it is
\* an array or a float
SumIsPythonInt(xs) == Len(xs) = 0

\* the exception the call ends with ("none" when it returns) and its value
aerodynamic_center(ap, chord_fraction) ==
    LET wing_areas == [i \in 1..Len(ap.wings) |-> Tenths(WingArea(ap.wings[i]))]
        ACs == [i \in 1..Len(ap.wings) |-> WingAC(ap.wings[i], chord_fraction)]
        \* AC * area, one coordinate at a time
        wing_AC_area_products(c) ==
            [i \in 1..Len(ap.wings) |-> Tenths(ACs[i][c]) * wing_areas[i]]
    IN  IF SumIsPythonInt(wing_areas) /\ PySum(wing_areas) = 0
        THEN \* int / int with a zero divisor: sum([]) / sum([]) is 0 / 0
             [exc |-> "ZeroDivisionError", value |-> None]
        ELSE [exc |-> "none",
              value |-> [c \in 1..3 |->
                            Quotient(PySum(wing_AC_area_products(c)), PySum(wing_areas))]]

AerodynamicCenter ==
    /\ ret.kind = "idle"
    /\ self.k = "Airplane"
    /\ \E chord_fraction \in ChordFractions :
          LET r == aerodynamic_center(self, chord_fraction)
          IN  ret' = IF r.exc = "none"
                     THEN Return("aerodynamic_center", chord_fraction, r.value)
                     ELSE Raise("aerodynamic_center", chord_fraction, r.exc)
    /\ UNCHANGED <<args, self, written, session_vars>>

(***************************************************************************)
(* Airplane.write_avl                                                      *)
(***************************************************************************)
spanwise_panel_resolution == 12
chordwise_panel_resolution == 12
fuse_panel_resolution == 24

\* A path is the sequence of its names and separators "/".  Path(p) drops
\* a separator that follows a separator and a trailing separator; str() of
\* the result is that sequence.
Path(p) ==
    LET keep == {i \in 1..Len(p) :
                    ~(p[i] = "/" /\ i > 1 /\ (p[i - 1] = "/" \/ i = Len(p)))}
        nth(j) == CHOOSE i \in keep : Cardinality({h \in keep : h < i}) = j - 1
    IN  IF p = <<>> THEN <<".">> ELSE [j \in 1..Cardinality(keep) |-> p[nth(j)]]

\* the destinations a caller may pass: None (the default) or a str
Filepaths == {None, PyStr(<<"plane.avl">>), PyStr(<<"out", "/", "/", "plane.avl">>)}

\* clean(s): every line stripped, the lines joined again
clean(s) == [i \in 1..Len(s) |-> Strip(s[i])]

\* one line of a template, indented by n spaces
T(n, line) == Str1(Spaces(n) \o line)
\* one line of a template that holds only the replacement field {value}
F(n, value) == StrCat(Str1(Spaces(n)), value)
\* f"{v[0]} {v[1]} {v[2]}"
Format3(v) == Format(v[1]) \o <<SP>> \o Format(v[2]) \o <<SP>> \o Format(v[3])

RuleEq == "#=================================================="
RuleDash == "#--------------------------------------------------"

\* the line with b_ref and c_ref in each other's place
ReferenceLine_Swapped(ap) ==
    Format(ap.s_ref) \o <<SP>> \o Format(ap.b_ref) \o <<SP>> \o Format(ap.c_ref)

\* f"{self.s_ref} {self.c_ref} {self.b_ref}"
ReferenceLine(ap) ==
    Format(ap.s_ref) \o <<SP>> \o Format(ap.c_ref) \o <<SP>> \o Format(ap.b_ref)

\* the header block, lines 213 to 225
HeaderBlock(ap) ==
    clean(F(8, ap.name)
          \o T(8, <<"#Mach">>)
          \o T(8, <<"0">>)
          \o T(8, <<"#IYsym">> \o Spaces(3) \o <<"IZsym">> \o Spaces(3) \o <<"Zsym">>)
          \o T(9, <<"0">> \o Spaces(7) \o <<"0">> \o Spaces(7) \o <<"0.0">>)
          \o T(8, <<"#Sref">> \o Spaces(4) \o <<"Cref">> \o Spaces(4) \o <<"Bref">>)
          \o T(8, ReferenceLine(ap))
          \o T(8, <<"#Xref">> \o Spaces(4) \o <<"Yref">> \o Spaces(4) \o <<"Zref">>)
          \o T(8, Format3(ap.xyz_ref))
          \o T(8, <<"#", SP, "CDp">>)
          \o T(8, <<"0">>)
          \o T(8, <<>>))

\* the directive given to every wing
SymmetryLine_Always(wing) == << <<"YDUPLICATE">>, <<"0">> >>

\* "YDUPLICATE\n0" if wing.symmetric else ""
SymmetryLine(wing) ==
    IF wing.symmetric THEN << <<"YDUPLICATE">>, <<"0">> >> ELSE EmptyStr

\* the block of one wing, lines 230 to 243
SurfaceBlock(wing) ==
    clean(T(12, <<RuleEq>>)
          \o T(12, <<"SURFACE">>)
          \o F(12, Str1(wing.name))
          \o T(12, <<"#Nchordwise">> \o Spaces(2) \o <<"Cspace">> \o Spaces(3)
                   \o <<"Nspanwise">> \o Spaces(3) \o <<"Sspace">>)
          \o T(12, FormatInt(chordwise_panel_resolution) \o Spaces(3) \o <<"1.0">>
                   \o Spaces(3) \o FormatInt(spanwise_panel_resolution)
                   \o Spaces(3) \o <<"1.0">>)
          \o T(12, <<"#">>)
          \o F(12, SymmetryLine(wing))
          \o T(12, <<"#">>)
          \o T(12, <<"TRANSLATE">>)
          \o T(12, Format3(wing.xyz_le))
          \o T(12, <<"ANGLE">>)
          \o T(12, <<"0">>)
          \o T(12, <<>>))

\* 1 + 0.77 * xsec.airfoil.max_thickness(), in ten-thousandths
Claf(xsec) == 10000 + 77 * xsec.airfoil.max_thickness

\* the block of one cross-section, lines 247 to 262
SectionBlock(xsec) ==
    clean(T(16, <<RuleDash>>)
          \o T(16, <<"SECTION">>)
          \o T(16, <<"#Xle">> \o Spaces(4) \o <<"Yle">> \o Spaces(4) \o <<"Zle">>
                   \o Spaces(5) \o <<"Chord">> \o Spaces(3) \o <<"Ainc">>)
          \o T(16, Format3(xsec.xyz_le) \o <<SP>> \o Format(xsec.chord)
                   \o <<SP>> \o Format(xsec.twist))
          \o T(16, <<>>)
          \o T(16, <<"AIRFOIL">>)
          \o F(16, xsec.airfoil.dat)
          \o T(16, <<>>)
          \o T(16, <<"#Cname">> \o Spaces(3) \o <<"Cgain">> \o Spaces(2) \o <<"Xhinge">>
                   \o Spaces(2) \o <<"HingeVec">> \o Spaces(5) \o <<"SgnDup", SP, "#", SP, "TODO">>)
          \o T(16, <<"#CONTROL">>)
          \o T(16, <<"#csurf">> \o Spaces(5) \o <<"1.0">> \o Spaces(3) \o <<"0.75">>
                   \o Spaces(4) \o <<"0.0", SP, "0.0", SP, "0.0">> \o Spaces(3) \o <<"1.0">>)
          \o T(16, <<>>)
          \o T(16, <<"CLAF">>)
          \o T(16, FormatFixed(Claf(xsec), 4)
                   \o <<SP, "#", SP, "Computed", SP, "using", SP, "rule", SP, "from",
                        SP, "avl_doc.txt">>)
          \o T(16, <<>>))

\* the suffix counted from 1
FuseFilepath_FromOne(filepath, i) == Path(filepath \o <<".fuse">> \o FormatInt(i + 1))

\* Path(str(filepath) + f".fuse{i}"), i counted from 0
FuseFilepath(filepath, i) == Path(filepath \o <<".fuse">> \o FormatInt(i))

\* the block of the i-th fuselage, lines 269 to 281
BodyBlock(fuse, fuse_filepath) ==
    clean(T(12, <<RuleEq>>)
          \o T(12, <<"BODY">>)
          \o F(12, Str1(fuse.name))
          \o T(12, FormatInt(fuse_panel_resolution) \o <<SP, "1">>)
          \o T(12, <<>>)
          \o T(12, <<"TRANSLATE">>)
          \o T(12, Format3(fuse.xyz_le))
          \o T(12, <<>>)
          \o T(12, <<"BFIL">>)
          \o F(12, Str1(fuse_filepath))
          \o T(12, <<>>)
          \o T(12, <<>>))

\* string += b for each b of blocks, in order, from position i on
RECURSIVE Append_(_, _, _)
Append_(string, blocks, i) ==
    IF i > Len(blocks) THEN string
    ELSE Append_(StrCat(string, blocks[i]), blocks, i + 1)

\* the loop over the wings, each followed by the loop over its xsecs
WingBlocks(wings) ==
    [w \in 1..Len(wings) |->
        Append_(SurfaceBlock(wings[w]),
                [x \in 1..Len(wings[w].xsecs) |-> SectionBlock(wings[w].xsecs[x])], 1)]

\* the loop over the fuselages: the blocks
FuselageBlocks(fuselages, filepath) ==
    [i \in 1..Len(fuselages) |-> BodyBlock(fuselages[i], FuseFilepath(filepath, i - 1))]

\* the loop over the fuselages: the files fuse.write_avl_bfile writes
FuselageFiles(fuselages, filepath) ==
    [i \in 1..Len(fuselages) |->
        [path |-> FuseFilepath(filepath, i - 1),
         content |-> [k |-> "bfile", of |-> fuselages[i].name]]]

\* the exception the call ends with ("none" when it returns), the str it
\* returns and the files it wrote
write_avl(ap, filepath) ==
    IF IsNone(filepath)
    THEN \* Path(None)
         [exc |-> "TypeError", value |-> None, written |-> <<>>]
    ELSE LET fp == Path(filepath.v)
             string == Append_(Append_(Append_(EmptyStr, <<HeaderBlock(ap)>>, 1),
                                       WingBlocks(ap.wings), 1),
                               FuselageBlocks(ap.fuselages, fp), 1)
         IN  [exc |-> "none", value |-> string,
              written |-> FuselageFiles(ap.fuselages, fp)
                          \o <<[path |-> fp, content |-> [k |-> "avl", of |-> string]]>>]

WriteAvl ==
    /\ ret.kind = "idle"
    /\ self.k = "Airplane"
    /\ \E filepath \in Filepaths :
          LET r == write_avl(self, filepath)
          IN  /\ ret' = IF r.exc = "none"
                        THEN Return("write_avl", filepath, r.value)
                        ELSE Raise("write_avl", filepath, r.exc)
              /\ written' = r.written
    /\ UNCHANGED <<args, self, session_vars>>

\* the caller takes the outcome of the call and goes on
Continue ==
    /\ ret.kind # "idle"
    /\ ret' = Idle
    /\ written' = <<>>
    /\ UNCHANGED <<args, self, session_vars>>

(***************************************************************************)
(* Changes to an airplane's wing list after construction.  The list and    *)
(* the wings are public attributes; the client changes them in place.      *)
(* args stays what the constructor call was given.                         *)
(***************************************************************************)
\* the wings the client puts in: a mirrored main wing, and a fin that is
\* not mirrored and carries a cambered airfoil
MutationWings ==
    { MkWing(<<"Wing">>, TRUE, TRUE, Vec(0, 0, 0), <<XSecBase>>,
             Planform(40, 30, 40, 30, 30, 0)),
      MkWing(<<"Fin">>, FALSE, TRUE, Vec(40, 0, 0),
             <<[XSecBase EXCEPT !.airfoil = Sd7037]>>, MainPlanform) }
\* what a change of a wing's geometry makes of its planform queries
MutationPlanforms == {MainPlanform, Planform(12, 10, 20, 10, 5, 0)}
\* constructor calls with at most one wing, with and without reference values
MutationArgs ==
    {MkArgs(DefaultName, DefaultXyzRef, w, None, r[1], r[2], r[3]) :
        w \in {PyList(l) : l \in SeqsUpTo(MutationWings, 1)} \cup {None},
        r \in {<<None, None, None>>, <<PyInt(9), PyFloat(9), PyInt(10)>>}}

\* airplane.wings.append(wing), followed by a fresh resolution of the
\* reference values
AppendWing_Resolving ==
    /\ ret.kind = "idle"
    /\ self.k = "Airplane"
    /\ Len(self.wings) < MaxWings
    /\ \E wing \in MutationWings :
          LET wings == Append(self.wings, wing)
              r == TryAssignReferenceValues(wings, self.s_ref, self.c_ref, self.b_ref)
          IN  self' = [self EXCEPT !.wings = wings, !.s_ref = r.s_ref,
                                   !.c_ref = r.c_ref, !.b_ref = r.b_ref]
    /\ UNCHANGED <<args, ret, written, session_vars>>

\* airplane.wings.append(wing)
AppendWing ==
    /\ ret.kind = "idle"
    /\ self.k = "Airplane"
    /\ Len(self.wings) < MaxWings
    /\ \E wing \in MutationWings :
          self' = [self EXCEPT !.wings = Append(self.wings, wing)]
    /\ UNCHANGED <<args, ret, written, session_vars>>

\* del airplane.wings[i]
RemoveWing ==
    /\ ret.kind = "idle"
    /\ self.k = "Airplane"
    /\ \E i \in 1..Len(self.wings) :
          self' = [self EXCEPT !.wings =
                      SubSeq(self.wings, 1, i - 1)
                      \o SubSeq(self.wings, i + 1, Len(self.wings))]
    /\ UNCHANGED <<args, ret, written, session_vars>>

\* airplane.wings[i] = wing
ReplaceWing ==
    /\ ret.kind = "idle"
    /\ self.k = "Airplane"
    /\ \E i \in 1..Len(self.wings), wing \in MutationWings :
          /\ self.wings[i] # wing
          /\ self' = [self EXCEPT !.wings[i] = wing]
    /\ UNCHANGED <<args, ret, written, session_vars>>

\* a change of the geometry of airplane.wings[i]: the wing's area(),
\* mean_aerodynamic_chord(), span() and aerodynamic_center() report the new
\* planform
ChangeWingGeometry ==
    /\ ret.kind = "idle"
    /\ self.k = "Airplane"
    /\ \E i \in 1..Len(self.wings), pf \in MutationPlanforms :
          /\ self.wings[i].planform # pf
          /\ self' = [self EXCEPT !.wings[i].planform = pf]
    /\ UNCHANGED <<args, ret, written, session_vars>>

(***************************************************************************)
(* A session that builds several airplanes.  Arrays and lists are objects: *)
(* an attribute holds the identity of one, and a change in place is seen   *)
(* through every attribute that holds the same identity.                   *)
(***************************************************************************)
\* the identity of the array np.array([0, 0, 0]) of the signature, made once,
\* when the def statement runs
DefaultArray == 1

\* no airplane yet: the default array is the one object alive
NoAirplanes ==
    /\ arrays = <<DefaultXyzRef>>
    /\ lists = <<>>
    /\ fleet = <<>>
    /\ touched = 0

\* the entries the client writes in place, and the value written
Axes == {1, 2}
NewEntry == PyInt(1)
\* the item the client appends to a list
NewItem == <<"Wing">>

\* the object __init__ binds to self.xyz_ref: the argument, which is the
\* default array when the call gives none (given = 0)
XyzRefObject(given) == IF given = 0 THEN DefaultArray ELSE given

\* the airplane __init__ leaves: self.xyz_ref = xyz_ref, and with no lists
\* given self.wings = [] and self.fuselages = [], both new
NewAirplane(given) ==
    [xyz_ref |-> XyzRefObject(given),
     wings |-> Len(lists) + 1, fuselages |-> Len(lists) + 2,
     by_default |-> given = 0]

\* Airplane()
ConstructDefault ==
    /\ Len(fleet) < MaxAirplanes
    /\ fleet' = Append(fleet, NewAirplane(0))
    /\ lists' = lists \o << <<>>, <<>> >>
    /\ touched' = 0
    /\ UNCHANGED <<arrays, airplane_vars>>

\* Airplane(xyz_ref=np.array([5, 0, 0])): the array is new
ConstructWithPoint ==
    /\ Len(fleet) < MaxAirplanes
    /\ arrays' = Append(arrays, <<PyInt(5), PyInt(0), PyInt(0)>>)
    /\ fleet' = Append(fleet, NewAirplane(Len(arrays) + 1))
    /\ lists' = lists \o << <<>>, <<>> >>
    /\ touched' = 0
    /\ UNCHANGED airplane_vars

\* airplane.xyz_ref[axis] = 1, on the i-th airplane
SetCoordinate ==
    /\ \E i \in 1..Len(fleet), axis \in Axes :
          /\ arrays[fleet[i].xyz_ref][axis] # NewEntry
          /\ arrays' = [arrays EXCEPT ![fleet[i].xyz_ref][axis] = NewEntry]
          /\ touched' = i
    /\ UNCHANGED <<lists, fleet, airplane_vars>>

\* airplane.wings.append(wing), on the i-th airplane
AppendToWings ==
    /\ \E i \in 1..Len(fleet) :
          /\ Len(lists[fleet[i].wings]) < MaxItems
          /\ lists' = [lists EXCEPT ![fleet[i].wings] = Append(@, NewItem)]
          /\ touched' = i
    /\ UNCHANGED <<arrays, fleet, airplane_vars>>

\* airplane.fuselages.append(fuselage), on the i-th airplane
AppendToFuselages ==
    /\ \E i \in 1..Len(fleet) :
          /\ Len(lists[fleet[i].fuselages]) < MaxItems
          /\ lists' = [lists EXCEPT ![fleet[i].fuselages] = Append(@, <<"Fuselage">>)]
          /\ touched' = i
    /\ UNCHANGED <<arrays, fleet, airplane_vars>>

(***************************************************************************)
(* The specification.                                                      *)
(***************************************************************************)
Init ==
    /\ args \in ArgSpace
    /\ self = Unconstructed
    /\ ret = Idle
    /\ written = <<>>
    /\ NoAirplanes

Next ==
    \/ Construct
    \/ IsEntirelySymmetric
    \/ AerodynamicCenter
    \/ WriteAvl
    \/ Continue

Spec == Init /\ [][Next]_vars

\* one airplane whose wing list the client changes between the calls
InitMutation ==
    /\ args \in MutationArgs
    /\ self = Unconstructed
    /\ ret = Idle
    /\ written = <<>>
    /\ NoAirplanes

NextMutation ==
    \/ Construct
    \/ IsEntirelySymmetric
    \/ AerodynamicCenter
    \/ WriteAvl
    \/ Continue
    \/ AppendWing
    \/ RemoveWing
    \/ ReplaceWing
    \/ ChangeWingGeometry

SpecMutation == InitMutation /\ [][NextMutation]_vars

\* a session that builds several airplanes and changes their attributes in
\* place
InitSession ==
    /\ args = MkArgs(DefaultName, DefaultXyzRef, None, None, None, None, None)
    /\ self = Unconstructed
    /\ ret = Idle
    /\ written = <<>>
    /\ NoAirplanes

NextSession ==
    \/ ConstructDefault
    \/ ConstructWithPoint
    \/ SetCoordinate
    \/ AppendToWings
    \/ AppendToFuselages

SpecSession == InitSession /\ [][NextSession]_vars

(***************************************************************************)
(* Properties.                                                             *)
(***************************************************************************)
\* the wing list the constructor call hands over
ArgWings == IF IsNone(args.wings) THEN <<>> ELSE args.wings.v

\* one reference value after construction: supplied is the argument, stored
\* the attribute, first the first wing's query result
ResolvedAsSpecified(supplied, stored, first) ==
    /\ ~IsNone(supplied) => stored = supplied
    /\ (IsNone(supplied) /\ Len(ArgWings) > 0) => stored = first
    /\ (IsNone(supplied) /\ Len(ArgWings) = 0) => IsNone(stored)

FirstPlanform == ArgWings[1].planform

\* C1: construction never raises, and each of s_ref, c_ref, b_ref on its
\* own is the supplied value when one was supplied, else the first wing's
\* area(), mean_aerodynamic_chord(), span() when there is a wing, else None.
C1_ReferenceValuesResolved ==
    ret.op = "__init__" =>
        /\ ret.kind = "return"
        /\ self.k = "Airplane"
        /\ ResolvedAsSpecified(args.s_ref, self.s_ref,
                IF Len(ArgWings) > 0 THEN FirstPlanform.area ELSE None)
        /\ ResolvedAsSpecified(args.c_ref, self.c_ref,
                IF Len(ArgWings) > 0 THEN FirstPlanform.mean_aerodynamic_chord ELSE None)
        /\ ResolvedAsSpecified(args.b_ref, self.b_ref,
                IF Len(ArgWings) > 0 THEN FirstPlanform.span ELSE None)

\* a construction with two different wings where s_ref is taken from the
\* first wing and the supplied c_ref is kept
C1_Witness ==
    /\ ret.op = "__init__" /\ ret.kind = "return"
    /\ Len(ArgWings) = 2 /\ ArgWings[1] # ArgWings[2]
    /\ IsNone(args.s_ref) /\ ~IsNone(args.c_ref) /\ IsNone(args.b_ref)
    /\ self.s_ref = ArgWings[1].planform.area
    /\ self.c_ref = args.c_ref

\* the projected areas and own aerodynamic centers of the airplane's wings
ProjectedAreas == [i \in 1..Len(self.wings) |-> Tenths(self.wings[i].planform.area_projected)]
OwnAC(i, c) == Tenths(self.wings[i].planform.aerodynamic_center[DefaultChordFraction][c])
WeightedACs(c) == [i \in 1..Len(self.wings) |-> OwnAC(i, c) * ProjectedAreas[i]]
Exactly(x, y, z) ==
    <<[k |-> "float", num |-> x, den |-> 1], [k |-> "float", num |-> y, den |-> 1],
      [k |-> "float", num |-> z, den |-> 1]>>

\* C2: with wings of positive total projected area, aerodynamic_center
\* returns, in each coordinate, the value v with v * sum(area_i) =
\* sum(AC_i * area_i); areas 1 and 3 with ACs (0,0,0) and (4,0,0) give
\* (3,0,0), equal areas with ACs (1,0,0) and (3,0,0) give (2,0,0).
C2_AreaWeightedMean ==
    (ret.op = "aerodynamic_center" /\ Len(self.wings) > 0 /\ PySum(ProjectedAreas) > 0) =>
        /\ ret.kind = "return"
        /\ \A c \in 1..3 :
              /\ ret.value[c].k = "float"
              /\ ret.value[c].den > 0
              /\ ret.value[c].num * PySum(ProjectedAreas)
                    = ret.value[c].den * PySum(WeightedACs(c))
        /\ (/\ ProjectedAreas = <<10, 30>>
            /\ \A c \in 1..3 : OwnAC(1, c) = 0
            /\ OwnAC(2, 1) = 40 /\ OwnAC(2, 2) = 0 /\ OwnAC(2, 3) = 0)
           => ret.value = Exactly(30, 0, 0)
        /\ (/\ Len(self.wings) = 2 /\ ProjectedAreas[1] = ProjectedAreas[2]
            /\ OwnAC(1, 1) = 10 /\ OwnAC(1, 2) = 0 /\ OwnAC(1, 3) = 0
            /\ OwnAC(2, 1) = 30 /\ OwnAC(2, 2) = 0 /\ OwnAC(2, 3) = 0)
           => ret.value = Exactly(20, 0, 0)

\* the call on areas 1 and 3 with ACs (0,0,0) and (4,0,0), which returned (3,0,0)
C2_Witness ==
    /\ ret.op = "aerodynamic_center" /\ ret.kind = "return"
    /\ Len(self.wings) = 2 /\ ProjectedAreas = <<10, 30>>
    /\ OwnAC(1, 1) = 0 /\ OwnAC(2, 1) = 40
    /\ ret.value = Exactly(30, 0, 0)

\* C3: aerodynamic_center on an airplane without wings ends in a raised
\* error and returns nothing.
C3_EmptyRaises ==
    (ret.op = "aerodynamic_center" /\ Len(self.wings) = 0) =>
        (ret.kind = "raise" /\ ret.value = "ZeroDivisionError")

\* the call on an airplane without wings, ended by the error
C3_Witness ==
    /\ ret.op = "aerodynamic_center" /\ Len(self.wings) = 0
    /\ ret.kind = "raise"

\* C4: if some wing's own is_entirely_symmetric() is False, wherever it is
\* in the list, Airplane.is_entirely_symmetric returns False.
C4_Monotonic ==
    (/\ ret.op = "is_entirely_symmetric"
     /\ \E i \in 1..Len(self.wings) : ~self.wings[i].is_entirely_symmetric)
    => (ret.kind = "return" /\ ret.value = FALSE)

\* the failing wing is the last of two, behind a wing that passes every
\* check, and has no failing cross-section of its own
C4_Witness ==
    /\ ret.op = "is_entirely_symmetric" /\ ret.kind = "return"
    /\ Len(self.wings) = 2
    /\ ~WingReturnsFalse(self.wings[1])
    /\ ~self.wings[2].is_entirely_symmetric
    /\ \A i \in 1..Len(self.wings[2].xsecs) :
          ~XsecReturnsFalse(self.wings[2], self.wings[2].xsecs[i])
    /\ ret.value = FALSE

\* P holds of every cross-section of every wing of the airplane
EveryXsec(P(_, _)) ==
    \A w \in 1..Len(self.wings) : \A x \in 1..Len(self.wings[w].xsecs) :
        P(self.wings[w], self.wings[w].xsecs[x])
EveryWingPassesOwnCheck ==
    \A w \in 1..Len(self.wings) : self.wings[w].is_entirely_symmetric

Undeflected(wing, xsec) == Tenths(xsec.control_surface_deflection) = 0
OnPlane(wing, xsec) == Tenths(xsec.xyz_le[2]) = 0
Untwisted(wing, xsec) == Tenths(xsec.twist) = 0
AirfoilSymmetric(wing, xsec) ==
    Tenths(xsec.airfoil.CL0) = 0 /\ Tenths(xsec.airfoil.Cm0) = 0
Plain(wing, xsec) ==
    Undeflected(wing, xsec) /\ OnPlane(wing, xsec) /\ Untwisted(wing, xsec)
AirfoilSymmetricUnlessMirrored(wing, xsec) ==
    wing.symmetric \/ AirfoilSymmetric(wing, xsec)

\* C5 as claimed: True whenever every wing passes its own check and every
\* cross-section has zero deflection, zero y offset and zero twist.
C5_AsClaimed ==
    (ret.op = "is_entirely_symmetric" /\ EveryWingPassesOwnCheck /\ EveryXsec(Plain))
    => ret.value = TRUE

\* C5, amended: True whenever every wing passes its own check, every
\* cross-section has zero deflection, zero y offset and zero twist, and
\* every cross-section of a wing not marked symmetric has an airfoil whose
\* lift and moment at zero incidence are zero.
C5_TrueWhenPlain ==
    (/\ ret.op = "is_entirely_symmetric"
     /\ EveryWingPassesOwnCheck
     /\ EveryXsec(Plain)
     /\ EveryXsec(AirfoilSymmetricUnlessMirrored))
    => (ret.kind = "return" /\ ret.value = TRUE)

\* two wings with cross-sections, one marked symmetric and one not, all
\* plain: the result is True
C5_Witness ==
    /\ ret.op = "is_entirely_symmetric" /\ ret.value = TRUE
    /\ EveryWingPassesOwnCheck /\ EveryXsec(Plain)
    /\ Len(self.wings) = 2
    /\ \E w \in 1..2 : self.wings[w].symmetric /\ Len(self.wings[w].xsecs) > 0
    /\ \E w \in 1..2 : ~self.wings[w].symmetric /\ Len(self.wings[w].xsecs) > 0

DeflectionOk(wing, xsec) ==
    xsec.control_surface_is_symmetric \/ Tenths(xsec.control_surface_deflection) = 0
OnPlaneUnlessMirrored(wing, xsec) == wing.symmetric \/ OnPlane(wing, xsec)
TwistAxisOkUnlessMirrored(wing, xsec) ==
    \/ wing.symmetric
    \/ Untwisted(wing, xsec)
    \/ (Tenths(xsec.twist_axis[1]) = 0 /\ Tenths(xsec.twist_axis[3]) = 0)

\* C6 as claimed: the airfoil condition binds every cross-section of every
\* wing, whatever the wing's flags.
C6_AsClaimed ==
    ret.op = "is_entirely_symmetric" =>
        /\ ~EveryXsec(AirfoilSymmetric) => ret.value = FALSE
        /\ ret.value = TRUE <=>
              /\ EveryWingPassesOwnCheck
              /\ EveryXsec(DeflectionOk)
              /\ EveryXsec(OnPlaneUnlessMirrored)
              /\ EveryXsec(TwistAxisOkUnlessMirrored)
              /\ EveryXsec(AirfoilSymmetric)

\* C6, amended: the airfoil condition binds the cross-sections of the wings
\* not marked symmetric only.  A cross-section of such a wing whose airfoil
\* has nonzero lift or moment at zero incidence makes the result False, and
\* the result is True exactly when every wing passes its own check and every
\* cross-section has a symmetric-or-zero deflection and, on a wing not
\* marked symmetric, lies on the plane, has its twist axis along y when
\* twisted, and has an airfoil of zero lift and moment.
C6_ExactlyWhen ==
    ret.op = "is_entirely_symmetric" =>
        /\ ret.kind = "return"
        /\ ~EveryXsec(AirfoilSymmetricUnlessMirrored) => ret.value = FALSE
        /\ ret.value = TRUE <=>
              /\ EveryWingPassesOwnCheck
              /\ EveryXsec(DeflectionOk)
              /\ EveryXsec(OnPlaneUnlessMirrored)
              /\ EveryXsec(TwistAxisOkUnlessMirrored)
              /\ EveryXsec(AirfoilSymmetricUnlessMirrored)

\* a wing marked symmetric carries a cambered airfoil and the result is True
C6_Witness ==
    /\ ret.op = "is_entirely_symmetric" /\ ret.value = TRUE
    /\ \E w \in 1..Len(self.wings) :
          /\ self.wings[w].symmetric
          /\ \E x \in 1..Len(self.wings[w].xsecs) :
                ~AirfoilSymmetric(self.wings[w], self.wings[w].xsecs[x])

(***************************************************************************)
(* Reading a document back.                                                *)
(***************************************************************************)
\* the tokens of a line that are not spaces
NonSpace(line) == LET Inked(t) == t # SP IN SelectSeq(line, Inked)

\* for each line of doc whose tokens are key, in order, the line off lines
\* below it
Following(doc, key, off) ==
    LET pairs == [i \in 1..Len(doc) |->
                    <<doc[i], IF i + off <= Len(doc) THEN doc[i + off] ELSE <<>> >>]
        Hit(p) == NonSpace(p[1]) = key
        hits == SelectSeq(pairs, Hit)
    IN  [j \in 1..Len(hits) |-> hits[j][2]]

\* the words of a line: its runs of tokens between spaces
Words(line) ==
    LET n == Len(line)
        starts == {i \in 1..n : line[i] # SP /\ (i = 1 \/ line[i - 1] = SP)}
        EndOf(i) == CHOOSE j \in i..n :
                        /\ \A h \in i..j : line[h] # SP
                        /\ (j = n \/ line[j + 1] = SP)
        nth(j) == CHOOSE i \in starts : Cardinality({h \in starts : h < i}) = j - 1
    IN  [j \in 1..Cardinality(starts) |-> SubSeq(line, nth(j), EndOf(nth(j)))]

IsDigit(t) == \E i \in 1..10 : DigitChar[i] = t
DigitValue(t) == (CHOOSE i \in 1..10 : DigitChar[i] = t) - 1

RECURSIVE NatOf(_)
NatOf(ds) ==
    IF Len(ds) = 0 THEN 0
    ELSE 10 * NatOf(SubSeq(ds, 1, Len(ds) - 1)) + DigitValue(ds[Len(ds)])

\* float(word): whether the word is a decimal number, and its value in tenths
ParseNumber(word) ==
    LET neg == Len(word) > 0 /\ word[1] = "-"
        body == IF neg THEN Tail(word) ELSE word
        dots == {i \in 1..Len(body) : body[i] = "."}
        dot == IF dots = {} THEN Len(body) + 1 ELSE CHOOSE i \in dots : TRUE
        whole == SubSeq(body, 1, dot - 1)
        frac == SubSeq(body, dot + 1, Len(body))
        ok == /\ Cardinality(dots) <= 1
              /\ Len(whole) > 0
              /\ \A i \in 1..Len(whole) : IsDigit(whole[i])
              /\ \A i \in 1..Len(frac) : IsDigit(frac[i])
              /\ Len(frac) <= 1
        mag == 10 * NatOf(whole) + (IF Len(frac) = 1 THEN DigitValue(frac[1]) ELSE 0)
    IN  [ok |-> ok, tenths |-> IF ~ok THEN 0 ELSE IF neg THEN -mag ELSE mag]

\* the word reads back as the number x
ReadsBackAs(word, x) ==
    ParseNumber(word).ok /\ ParseNumber(word).tenths = Tenths(x)

(***************************************************************************)
(* Properties of write_avl.                                                *)
(***************************************************************************)
WroteAvl == ret.op = "write_avl" /\ ret.kind = "return"

\* C7 as claimed: write_avl returns the document whether or not a
\* destination is given: with None it returns it, raises nothing and writes
\* no file; with a destination it writes the string it returns there.
C7_AsClaimed ==
    ret.op = "write_avl" =>
        /\ ret.kind = "return"
        /\ Following(ret.value, <<"#Mach">>, 1) = << <<"0">> >>
        /\ IsNone(ret.arg) => written = <<>>
        /\ ~IsNone(ret.arg) =>
              \E i \in 1..Len(written) :
                  /\ written[i].path = Path(ret.arg.v)
                  /\ written[i].content = [k |-> "avl", of |-> ret.value]

\* the key lines the airplane's parts call for, in order
RECURSIVE KeysOfWings(_, _)
KeysOfWings(wings, w) ==
    IF w > Len(wings) THEN <<>>
    ELSE << <<"SURFACE">> >> \o [x \in 1..Len(wings[w].xsecs) |-> <<"SECTION">>]
         \o KeysOfWings(wings, w + 1)
ExpectedKeys ==
    << <<"#Mach">> >> \o KeysOfWings(self.wings, 1)
    \o [i \in 1..Len(self.fuselages) |-> <<"BODY">>]
IsKeyLine(line) == line \in {<<"#Mach">>, <<"SURFACE">>, <<"SECTION">>, <<"BODY">>}

\* the data lines of the cross-sections, wing by wing
SectionData(xsec) ==
    Format3(xsec.xyz_le) \o <<SP>> \o Format(xsec.chord) \o <<SP>> \o Format(xsec.twist)
RECURSIVE SectionDataOfWings(_, _)
SectionDataOfWings(wings, w) ==
    IF w > Len(wings) THEN <<>>
    ELSE [x \in 1..Len(wings[w].xsecs) |-> SectionData(wings[w].xsecs[x])]
         \o SectionDataOfWings(wings, w + 1)

\* str(destination) + ".fuse" + str(i), the destination being the filepath
\* as the Path the serializer holds, and i counted from 0
AuxiliaryPath(i) == Path(ret.arg.v) \o <<".fuse">> \o FormatInt(i)

\* C8: the document has the header first, then one SURFACE block per wing
\* in list order, each followed by one SECTION record per cross-section in
\* order, then one BODY block per fuselage in list order; for fuselage i
\* exactly one auxiliary file is written, at str(destination) + ".fuse" +
\* str(i), the path the i-th BODY block's BFIL names.
C8_DocumentOrder ==
    WroteAvl =>
        LET doc == ret.value
            m == Len(self.fuselages)
        IN  /\ SelectSeq(doc, IsKeyLine) = ExpectedKeys
            /\ Following(doc, <<"SURFACE">>, 1)
                  = [w \in 1..Len(self.wings) |-> self.wings[w].name]
            /\ Following(doc, <<"SECTION">>, 2) = SectionDataOfWings(self.wings, 1)
            /\ Following(doc, <<"BODY">>, 1) = [i \in 1..m |-> self.fuselages[i].name]
            /\ Following(doc, <<"BFIL">>, 1) = [i \in 1..m |-> AuxiliaryPath(i - 1)]
            /\ Len(written) = m + 1
            /\ \A i \in 1..m :
                  /\ written[i].path = AuxiliaryPath(i - 1)
                  /\ written[i].content = [k |-> "bfile", of |-> self.fuselages[i].name]
                  /\ \A j \in 1..(m + 1) : written[j].path = written[i].path => j = i
            /\ written[m + 1].content.k = "avl"

\* a document of two different wings with two cross-sections each and two
\* different fuselages, written to a destination given with a doubled "/"
C8_Witness ==
    /\ WroteAvl
    /\ Len(self.wings) = 2 /\ self.wings[1] # self.wings[2]
    /\ \A w \in 1..2 : Len(self.wings[w].xsecs) = 2
    /\ Len(self.fuselages) = 2 /\ self.fuselages[1] # self.fuselages[2]
    /\ ret.arg.v # Path(ret.arg.v)
    /\ Len(written) = 3
    /\ written[2].path = <<"out", "/", "plane.avl", ".fuse", "1">>

\* the wings marked symmetric
MirroredWings == {w \in 1..Len(self.wings) : self.wings[w].symmetric}
IsYDuplicate(line) == line = <<"YDUPLICATE">>

\* C9: the header carries Mach 0 and the symmetry flags 0 0 0.0 whatever
\* is_entirely_symmetric would return, and a wing's SURFACE block holds
\* YDUPLICATE with the value 0 exactly when the wing is marked symmetric.
C9_SymmetryPerSurface ==
    WroteAvl =>
        LET doc == ret.value
        IN  /\ Following(doc, <<"#Mach">>, 1) = << <<"0">> >>
            /\ Following(doc, <<"#IYsym", "IZsym", "Zsym">>, 1)
                  = << <<"0">> \o Spaces(7) \o <<"0">> \o Spaces(7) \o <<"0.0">> >>
            /\ Following(doc, <<"SURFACE">>, 5)
                  = [w \in 1..Len(self.wings) |->
                        IF self.wings[w].symmetric THEN <<"YDUPLICATE">> ELSE <<>>]
            /\ Following(doc, <<"YDUPLICATE">>, 1) = [j \in 1..Cardinality(MirroredWings) |-> <<"0">>]
            /\ Len(SelectSeq(doc, IsYDuplicate)) = Cardinality(MirroredWings)

\* documents of an airplane the validator finds symmetric and of one it
\* does not, each with a wing marked symmetric and a wing not marked so
C9_Witness ==
    /\ WroteAvl
    /\ is_entirely_symmetric(self)
    /\ Len(self.wings) = 2
    /\ self.wings[1].symmetric /\ ~self.wings[2].symmetric
    /\ Len(self.wings[1].xsecs) = 2
    /\ Following(ret.value, <<"SURFACE">>, 5) = << <<"YDUPLICATE">>, <<>> >>

\* what reading the header back gives
HeaderName == Str1(ret.value[1])
HeaderReferenceLines == Following(ret.value, <<"#Sref", "Cref", "Bref">>, 1)
HeaderPointLines == Following(ret.value, <<"#Xref", "Yref", "Zref">>, 1)
\* the line holds three words, and each reads back as its value unless the
\* value is unset
ReadsBackAll(lines, values) ==
    /\ Len(lines) = 1
    /\ Len(Words(lines[1])) = 3
    /\ \A i \in 1..3 :
          ~IsNone(values[i]) => ReadsBackAs(Words(lines[1])[i], values[i])
HeaderReadsBack ==
    /\ HeaderName = self.name
    /\ ReadsBackAll(HeaderReferenceLines, <<self.s_ref, self.c_ref, self.b_ref>>)
    /\ ReadsBackAll(HeaderPointLines, self.xyz_ref)

\* C10 as claimed: the header reads back as the name, the reference values
\* and the reference point of the airplane, for every name.
C10_AsClaimed == WroteAvl => HeaderReadsBack

\* a name of one line without white space at either end
NameIsPlain == Len(self.name) = 1 /\ Strip(self.name[1]) = self.name[1]

\* C10, amended: for every airplane whose name holds no line break and no
\* leading or trailing white space, line 1 of the header is the name, the
\* line after "#Sref Cref Bref" reads back as the reference area, chord and
\* span, and the line after "#Xref Yref Zref" as the reference point.
C10_HeaderRoundTrip == (WroteAvl /\ NameIsPlain) => HeaderReadsBack

\* a name with an inner space, a negative reference area, a two-digit span
\* and a reference point with a negative and a three-digit coordinate
C10_Witness ==
    /\ WroteAvl
    /\ self.name = Str1(<<"My", SP, "plane">>)
    /\ self.s_ref = PyFloat(-25) /\ self.b_ref = PyFloat(120)
    /\ ~IsNone(self.c_ref)
    /\ self.xyz_ref = Vec(-12, 0, 105)
    /\ HeaderReadsBack


(***************************************************************************)
(* Unset reference values in write_avl.                                    *)
(***************************************************************************)
\* one of the airplane's reference values is unset
SomeReferenceUnset == IsNone(self.s_ref) \/ IsNone(self.c_ref) \/ IsNone(self.b_ref)

\* the words of the reference-value line of the document returned
ReferenceWords ==
    IF Len(HeaderReferenceLines) = 0 THEN <<>> ELSE Words(HeaderReferenceLines[1])

\* C11 as claimed: a write_avl call on an airplane with an unset s_ref, c_ref
\* or b_ref ends in a raised error and writes no file, and no document
\* write_avl returns has a word on its reference-value line that is not a
\* number.
C11_AsClaimed ==
    /\ (ret.op = "write_avl" /\ SomeReferenceUnset) =>
          (ret.kind = "raise" /\ written = <<>>)
    /\ WroteAvl =>
          \A i \in 1..Len(ReferenceWords) : ParseNumber(ReferenceWords[i]).ok

\* the call with a destination on an airplane without wings or reference
\* values, which returned and wrote a document whose reference-value line is
\* None None None
C11_PlaceholderWritten ==
    /\ WroteAvl
    /\ Len(self.wings) = 0
    /\ IsNone(self.s_ref) /\ IsNone(self.c_ref) /\ IsNone(self.b_ref)
    /\ ReferenceWords = << <<"None">>, <<"None">>, <<"None">> >>
    /\ Len(written) = 1


(***************************************************************************)
(* The chord fraction of aerodynamic_center.                               *)
(***************************************************************************)
\* wing i's own aerodynamic center at chord fraction cf, and its product
\* with the wing's projected area
OwnACAt(i, cf, c) == Tenths(self.wings[i].planform.aerodynamic_center[cf][c])
WeightedACsAt(cf, c) ==
    [i \in 1..Len(self.wings) |-> OwnACAt(i, cf, c) * ProjectedAreas[i]]

\* the value returned is, in each coordinate, the area-weighted mean of the
\* wings' own aerodynamic centers at chord fraction cf
IsMeanAt(cf) ==
    \A c \in 1..3 :
        ret.value[c].num * PySum(ProjectedAreas)
            = ret.value[c].den * PySum(WeightedACsAt(cf, c))

\* C13 as claimed: for every chord fraction c, what aerodynamic_center(c)
\* returns is the area-weighted mean of wing.aerodynamic_center(c) over the
\* wings.
C13_AsClaimed ==
    (ret.op = "aerodynamic_center" /\ ret.kind = "return" /\ PySum(ProjectedAreas) > 0)
        => IsMeanAt(ret.arg)

\* the call with chord fraction 0.1 that returned the mean of the wings'
\* aerodynamic centers at 0.25, which is not their mean at 0.1
C13_HintIgnored ==
    /\ ret.op = "aerodynamic_center" /\ ret.kind = "return"
    /\ ret.arg = 10
    /\ Len(self.wings) = 2
    /\ PySum(ProjectedAreas) > 0
    /\ IsMeanAt(DefaultChordFraction)
    /\ ~IsMeanAt(10)


(***************************************************************************)
(* Changes to the wing list between the calls.                             *)
(***************************************************************************)
\* the reference values are what the constructor call resolved them to
ReferenceValuesAsConstructed ==
    /\ ResolvedAsSpecified(args.s_ref, self.s_ref,
            IF Len(ArgWings) > 0 THEN FirstPlanform.area ELSE None)
    /\ ResolvedAsSpecified(args.c_ref, self.c_ref,
            IF Len(ArgWings) > 0 THEN FirstPlanform.mean_aerodynamic_chord ELSE None)
    /\ ResolvedAsSpecified(args.b_ref, self.b_ref,
            IF Len(ArgWings) > 0 THEN FirstPlanform.span ELSE None)

\* the wings as they are now pass every check of is_entirely_symmetric
PassesEveryCheckNow ==
    /\ EveryWingPassesOwnCheck
    /\ EveryXsec(DeflectionOk)
    /\ EveryXsec(OnPlaneUnlessMirrored)
    /\ EveryXsec(TwistAxisOkUnlessMirrored)
    /\ EveryXsec(AirfoilSymmetricUnlessMirrored)

\* C12: whatever appends, removals, replacements and changes of geometry
\* the wing list has gone through since construction, s_ref, c_ref and
\* b_ref are the values resolved from the constructor's arguments, and the
\* outcome of an is_entirely_symmetric, aerodynamic_center or write_avl call
\* is that of the wings as they are at the call: the symmetry result is True
\* exactly when they pass every check, the aerodynamic center is their
\* area-weighted mean (an error when there is none), and the document lists
\* them by name, in order.
C12_FrozenAndFresh ==
    /\ self.k = "Airplane" => ReferenceValuesAsConstructed
    /\ ret.op = "is_entirely_symmetric" =>
          (ret.kind = "return" /\ (ret.value = TRUE <=> PassesEveryCheckNow))
    /\ ret.op = "aerodynamic_center" =>
          IF Len(self.wings) = 0
          THEN ret.kind = "raise"
          ELSE ret.kind = "return" /\ IsMeanAt(DefaultChordFraction)
    /\ WroteAvl =>
          /\ SelectSeq(ret.value, IsKeyLine) = ExpectedKeys
          /\ Following(ret.value, <<"SURFACE">>, 1)
                = [w \in 1..Len(self.wings) |-> self.wings[w].name]

\* an airplane built without wings or reference values, given two wings
\* since: the reference values are still unset, and aerodynamic_center,
\* which raised on the airplane as built, returns the mean of the two
C12_Witness ==
    /\ ret.op = "aerodynamic_center" /\ ret.kind = "return"
    /\ Len(ArgWings) = 0
    /\ Len(self.wings) = 2 /\ self.wings[1] # self.wings[2]
    /\ self.wings[1].planform # MainPlanform
    /\ IsNone(self.s_ref) /\ IsNone(self.c_ref) /\ IsNone(self.b_ref)
    /\ IsMeanAt(DefaultChordFraction)


(***************************************************************************)
(* Airplanes built with the default arguments.                             *)
(***************************************************************************)
\* what the j-th airplane's xyz_ref, wings and fuselages read as
SeenThrough(j) ==
    [xyz_ref |-> arrays[fleet[j].xyz_ref],
     wings |-> lists[fleet[j].wings],
     fuselages |-> lists[fleet[j].fuselages]]

\* the lists alone
ListsSeenThrough(j) ==
    [wings |-> lists[fleet[j].wings], fuselages |-> lists[fleet[j].fuselages]]

\* C14 as claimed: a change in place made through one airplane built
\* without arguments leaves what every other such airplane's xyz_ref, wings
\* and fuselages read as unchanged, and an airplane built without arguments
\* starts with the reference point (0, 0, 0) and empty lists whatever was
\* done to the airplanes built before it.
C14_AsClaimed ==
    [][/\ \A i, j \in 1..Len(fleet) :
            (touched' = i /\ j # i /\ fleet[i].by_default /\ fleet[j].by_default)
                => SeenThrough(j)' = SeenThrough(j)
       /\ (Len(fleet') > Len(fleet) /\ fleet'[Len(fleet')].by_default)
            => LET new == fleet'[Len(fleet')]
               IN  /\ arrays'[new.xyz_ref] = DefaultXyzRef
                   /\ lists'[new.wings] = <<>>
                   /\ lists'[new.fuselages] = <<>>
      ]_vars

\* two airplanes built without arguments, the first one's xyz_ref changed
\* in place: the second one's xyz_ref is the same object and reads as the
\* changed point, while the lists of the two are four objects
C14_SharedPoint ==
    /\ Len(fleet) = 2
    /\ fleet[1].by_default /\ fleet[2].by_default
    /\ touched = 1
    /\ fleet[1].xyz_ref = fleet[2].xyz_ref
    /\ SeenThrough(2).xyz_ref = <<PyInt(1), PyInt(0), PyInt(0)>>
    /\ Cardinality({fleet[1].wings, fleet[1].fuselages,
                    fleet[2].wings, fleet[2].fuselages}) = 4

\* the lists of the claim on their own: a change in place made through one
\* airplane leaves the wings and fuselages of every other airplane unchanged
C14_ListsApart ==
    [][\A i, j \in 1..Len(fleet) :
          (touched' = i /\ j # i) => ListsSeenThrough(j)' = ListsSeenThrough(j)
      ]_vars

=============================================================================
